---- MODULE Spec2Model ----
(***************************************************************************)
(* Model of the sender-service transfer orchestration:                     *)
(*   services/transfer_service.go   InitiateTransfer, CompleteTransfer     *)
(*   repositories/transfer_repository.go   Create, FindByID, Update (Save) *)
(* The Auth service (user lookup / points update), the database and the    *)
(* SMTP transport are collaborators: each call to one of them is one       *)
(* atomic step that either succeeds or fails.  Calls of the service run    *)
(* as processes whose steps interleave freely.                             *)
(***************************************************************************)
EXTENDS Integers, Sequences, FiniteSets, TLC

\* ---------------------------------------------------------------- bounds
\* number of times the environment lets the clock move
MaxTicks == 1
\* the per-record debit counter saturates here
DebitCap == 2

\* ------------------------------------------------------------ constants
\* time.Now().Add(24 * time.Hour); the model clock counts hours
ExpiryWindow == 24

\* ---------------------------------------------------------- environment
\* concurrent callers of the service (HTTP requests in flight)
Procs == {"p1", "p2"}
\* users known to the Auth service
Users == {"u1", "u2"}
\* callers of InitiateTransfer (the X-User-ID header)
Senders == {"u1"}
\* User.Email as stored by the Auth service
EmailOf(u) == IF u = "u1" THEN "a@x.io" ELSE "b@x.io"
\* User.Points at start
InitBalances == {100}
\* TransferRequest.Points values tried by callers
PointsChoices == {0, 60}
\* TransferRequest.ReceiverEmail values tried by callers
EmailChoices == {"a@x.io", "b@x.io"}
\* TransferRequest.ReceiverName values tried by callers
NameChoices == {"Bob"}
\* User.Points at start, including an empty and an overdrawn account
WideBalances == {0 - 5, 0, 100}
\* TransferRequest.Points values tried by callers, including negative ones
WidePoints == {0 - 10, 0, 60}
\* amounts of time the environment lets pass in one step
TickChoices == {1, ExpiryWindow + 1}

\* ------------------------------------------------------- error messages
Nil == "nil"
ErrSender == "failed to get sender details"
ErrCreate == "failed to create transfer"
ErrNotFound == "transfer not found"
ErrNoLongerSufficient == "sender no longer has sufficient points"
ErrDeduct == "failed to deduct points from sender"
ErrComplete_AsDeduct == "failed to deduct points from sender"
ErrComplete == "failed to complete transfer"
ErrInsufficient == "insufficient points"
ErrSelf == "cannot transfer points to yourself"
ErrAmount == "points must be greater than zero"
ErrFetch == "Failed to fetch transfers"

\* ------------------------------------------------------------- entities
\* the zero value of models.Transfer (a local not yet assigned)
NilTransfer ==
  [ID |-> <<"", 0>>, SenderID |-> "", SenderEmail |-> "", ReceiverEmail |-> "",
   ReceiverName |-> "", Points |-> 0, Status |-> "", Token |-> <<"", 0>>,
   ExpiresAt |-> 0, CreatedAt |-> 0, UpdatedAt |-> 0]

\* the zero value of models.TransferRequest
NilRequest == [ReceiverEmail |-> "", ReceiverName |-> "", Points |-> 0]

\* the zero value of models.User
NilUser == [ID |-> "", Email |-> "", Points |-> 0]

\* what one call has done so far, as seen from outside the call
NilObs ==
  [op |-> "", id |-> <<"", 0>>, seenStatus |-> "", seenExpired |-> FALSE,
   readOK |-> FALSE, read |-> 0, wrote |-> FALSE, written |-> 0, stored |-> "", storeFailed |-> FALSE,
   fault |-> FALSE, user |-> "", req |-> NilRequest, list |-> <<>>]

\* fmt.Sprintf("transfer_%d", time.Now().UnixNano())
generateID(now) == <<"transfer_", now>>

\* fmt.Sprintf("token_%d", time.Now().UnixNano())
generateToken(now) == <<"token_", now>>

VARIABLES
  clock,      \* time.Now()
  balance,    \* Auth service: User.Points per user
  store,      \* transfers table: ID -> row
  pc,         \* position of each call
  transfer,   \* the local *models.Transfer of each call
  sender,     \* the local *models.User of each call
  result,     \* the error a finished call returned
  mailq,      \* notification goroutines spawned and not yet run
  outbox,     \* e-mails handed to SMTP
  debits,     \* successful points updates issued per transfer ID
  obs         \* effects of the call in progress

vars == <<clock, balance, store, pc, transfer, sender, result, mailq, outbox, debits, obs>>

\* ------------------------------------------------------------- helpers
\* how often the clock has moved to reach c
TicksUsed(c) == (c \div (ExpiryWindow + 1)) + (c % (ExpiryWindow + 1))

\* the places where the clock may move between the five time.Now() reads of
\* InitiateTransfer: after the k-th read
SkewChoices == {1, 3}

\* the i-th time.Now() read of InitiateTransfer: the first k reads return now,
\* the later ones now + d
ClockRead(now, d, k, i) == IF i <= k THEN now ELSE now + d

\* validateTransfer: sender.Points < req.Points
InsufficientPoints(have, want) == have < want

NoLongerSufficient_Overdrawn(have, want) == have < 0

\* CompleteTransfer: sender.Points < transfer.Points
NoLongerSufficient(have, want) == have < want

DeductedPoints_Added(have, want) == have + want

\* CompleteTransfer: sender.Points - transfer.Points
DeductedPoints(have, want) == have - want

\* validateTransfer without Business Rule 3
validateTransfer_NoAmountRule(snd, req) ==
  IF InsufficientPoints(snd.Points, req.Points) THEN ErrInsufficient
  ELSE IF snd.Email = req.ReceiverEmail THEN ErrSelf
  ELSE Nil

\* validateTransfer with the amount checked first and the balance last
validateTransfer_AmountFirst(snd, req) ==
  IF req.Points <= 0 THEN ErrAmount
  ELSE IF snd.Email = req.ReceiverEmail THEN ErrSelf
  ELSE IF InsufficientPoints(snd.Points, req.Points) THEN ErrInsufficient
  ELSE Nil

\* validateTransfer
validateTransfer(snd, req) ==
  IF InsufficientPoints(snd.Points, req.Points) THEN ErrInsufficient
  ELSE IF snd.Email = req.ReceiverEmail THEN ErrSelf
  ELSE IF req.Points <= 0 THEN ErrAmount
  ELSE Nil

\* NewTransfer with a status outside the lifecycle
NewTransfer_Active(senderID, snd, req, now, d, k) ==
  [ID |-> generateID(ClockRead(now, d, k, 1)),
   SenderID |-> senderID,
   SenderEmail |-> snd.Email,
   ReceiverEmail |-> req.ReceiverEmail,
   ReceiverName |-> req.ReceiverName,
   Points |-> req.Points,
   Status |-> "active",
   Token |-> generateToken(ClockRead(now, d, k, 2)),
   ExpiresAt |-> ClockRead(now, d, k, 3) + ExpiryWindow,
   CreatedAt |-> ClockRead(now, d, k, 4),
   UpdatedAt |-> ClockRead(now, d, k, 5)]

\* the models.Transfer literal of InitiateTransfer
NewTransfer(senderID, snd, req, now, d, k) ==
  [ID |-> generateID(ClockRead(now, d, k, 1)),
   SenderID |-> senderID,
   SenderEmail |-> snd.Email,
   ReceiverEmail |-> req.ReceiverEmail,
   ReceiverName |-> req.ReceiverName,
   Points |-> req.Points,
   Status |-> "pending",
   Token |-> generateToken(ClockRead(now, d, k, 2)),
   ExpiresAt |-> ClockRead(now, d, k, 3) + ExpiryWindow,
   CreatedAt |-> ClockRead(now, d, k, 4),
   UpdatedAt |-> ClockRead(now, d, k, 5)]

\* Save stamping the creation timestamp as well
Save_StampsCreated(st, row, now) ==
  [i \in DOMAIN st \cup {row.ID} |->
     IF i = row.ID THEN [row EXCEPT !.UpdatedAt = now, !.CreatedAt = now] ELSE st[i]]

\* db.Save: write the whole row under its primary key, stamping UpdatedAt
Save(st, row, now) ==
  [i \in DOMAIN st \cup {row.ID} |->
     IF i = row.ID THEN [row EXCEPT !.UpdatedAt = now] ELSE st[i]]

\* db.Create: INSERT; the primary key and the unique token index reject duplicates
CanInsert(st, row) ==
  /\ row.ID \notin DOMAIN st
  /\ \A i \in DOMAIN st : st[i].Token # row.Token

Insert(st, row) == [i \in DOMAIN st \cup {row.ID} |-> IF i = row.ID THEN row ELSE st[i]]

Requests == [ReceiverEmail : EmailChoices, ReceiverName : NameChoices, Points : PointsChoices]

WideRequests == [ReceiverEmail : EmailChoices, ReceiverName : NameChoices, Points : WidePoints]

\* return err: the locals of the call are gone
Finish(p, err) ==
  /\ pc' = [pc EXCEPT ![p] = "done"]
  /\ result' = [result EXCEPT ![p] = err]
  /\ sender' = [sender EXCEPT ![p] = NilUser]

Bump(n) == IF n < DebitCap THEN n + 1 ELSE n

\* ---------------------------------------------------------------- Init
Init ==
  /\ clock = 0
  /\ balance \in [Users -> InitBalances]
  /\ store = [i \in {} |-> NilTransfer]
  /\ pc = [p \in Procs |-> "idle"]
  /\ transfer = [p \in Procs |-> NilTransfer]
  /\ sender = [p \in Procs |-> NilUser]
  /\ result = [p \in Procs |-> Nil]
  /\ mailq = {}
  /\ outbox = {}
  /\ debits = [i \in {} |-> 0]
  /\ obs = [p \in Procs |-> NilObs]

\* ------------------------------------------------------------- actions
\* time passes
Tick ==
  /\ \E d \in TickChoices :
       /\ TicksUsed(clock + d) <= MaxTicks
       /\ clock' = clock + d
  /\ UNCHANGED <<balance, store, pc, transfer, sender, result, mailq, outbox, debits, obs>>

\* InitiateTransfer(u, req), lines 37-60: getUser, validateTransfer, build the
\* record
I_Validate(p, u, req) ==
  /\ pc[p] = "idle"
  /\ \E ok \in BOOLEAN :
       LET snd == [ID |-> u, Email |-> EmailOf(u), Points |-> balance[u]]
           err == validateTransfer(snd, req)
       IN  /\ obs' = [obs EXCEPT ![p] =
                        IF ok THEN [NilObs EXCEPT !.op = "initiate", !.user = u, !.req = req,
                                                  !.readOK = TRUE, !.read = balance[u]]
                              ELSE [NilObs EXCEPT !.op = "initiate", !.user = u, !.fault = TRUE]]
           /\ IF ~ok
              THEN /\ Finish(p, ErrSender)
                   /\ UNCHANGED <<clock, transfer>>
              ELSE IF err # Nil
              THEN /\ Finish(p, err)
                   /\ UNCHANGED <<clock, transfer>>
              ELSE /\ \E d \in {0, 1}, k \in SkewChoices :
                        /\ TicksUsed(clock + d) <= MaxTicks
                        /\ transfer' = [transfer EXCEPT ![p] = NewTransfer(u, snd, req, clock, d, k)]
                        /\ clock' = clock + d
                   /\ sender' = [sender EXCEPT ![p] = snd]
                   /\ pc' = [pc EXCEPT ![p] = "i_create"]
                   /\ UNCHANGED result
  /\ UNCHANGED <<balance, store, mailq, outbox, debits>>

\* InitiateTransfer called with one of the usual requests
I_GetUser(p, u) == \E req \in Requests : I_Validate(p, u, req)

\* I_Create with the points taken from the sender as soon as the row exists
I_Create_Debits(p) ==
  /\ pc[p] = "i_create"
  /\ \E ok \in BOOLEAN :
       IF ok /\ CanInsert(store, transfer[p])
       THEN /\ store' = Insert(store, transfer[p])
            /\ balance' = [balance EXCEPT ![transfer[p].SenderID] = @ - transfer[p].Points]
            /\ debits' = [i \in DOMAIN debits \cup {transfer[p].ID} |->
                            IF i = transfer[p].ID THEN 0 ELSE debits[i]]
            /\ mailq' = mailq \cup {transfer[p].ID}
            /\ obs' = [obs EXCEPT ![p].id = transfer[p].ID, ![p].stored = "pending"]
            /\ Finish(p, Nil)
            /\ UNCHANGED transfer
       ELSE /\ obs' = [obs EXCEPT ![p].storeFailed = TRUE, ![p].fault = ~ok]
            /\ Finish(p, ErrCreate)
            /\ transfer' = [transfer EXCEPT ![p] = NilTransfer]
            /\ UNCHANGED <<store, debits, mailq, balance>>
  /\ UNCHANGED <<clock, outbox>>

\* I_Create with the e-mail goroutine spawned before Create is checked
I_Create_MailFirst(p) ==
  /\ pc[p] = "i_create"
  /\ mailq' = mailq \cup {transfer[p].ID}
  /\ \E ok \in BOOLEAN :
       IF ok /\ CanInsert(store, transfer[p])
       THEN /\ store' = Insert(store, transfer[p])
            /\ debits' = [i \in DOMAIN debits \cup {transfer[p].ID} |->
                            IF i = transfer[p].ID THEN 0 ELSE debits[i]]
            /\ obs' = [obs EXCEPT ![p].id = transfer[p].ID, ![p].stored = "pending"]
            /\ Finish(p, Nil)
            /\ UNCHANGED transfer
       ELSE /\ obs' = [obs EXCEPT ![p].storeFailed = TRUE, ![p].fault = ~ok]
            /\ Finish(p, ErrCreate)
            /\ transfer' = [transfer EXCEPT ![p] = NilTransfer]
            /\ UNCHANGED <<store, debits>>
  /\ UNCHANGED <<clock, balance, outbox>>

\* InitiateTransfer, lines 63-79: transferRepo.Create, then spawn the e-mail
\* goroutine and return the record
I_Create(p) ==
  /\ pc[p] = "i_create"
  /\ \E ok \in BOOLEAN :
       IF ok /\ CanInsert(store, transfer[p])
       THEN /\ store' = Insert(store, transfer[p])
            /\ debits' = [i \in DOMAIN debits \cup {transfer[p].ID} |->
                            IF i = transfer[p].ID THEN 0 ELSE debits[i]]
            /\ mailq' = mailq \cup {transfer[p].ID}
            /\ obs' = [obs EXCEPT ![p].id = transfer[p].ID, ![p].stored = "pending"]
            /\ Finish(p, Nil)
            /\ UNCHANGED transfer
       ELSE /\ obs' = [obs EXCEPT ![p].storeFailed = TRUE, ![p].fault = ~ok]
            /\ Finish(p, ErrCreate)
            /\ transfer' = [transfer EXCEPT ![p] = NilTransfer]
            /\ UNCHANGED <<store, debits, mailq>>
  /\ UNCHANGED <<clock, balance, outbox>>

\* Notify with the record marked failed when the e-mail cannot be sent
Notify_MarksFailed ==
  /\ \E id \in mailq, ok \in BOOLEAN :
       /\ mailq' = mailq \ {id}
       /\ outbox' = IF ok THEN outbox \cup {id} ELSE outbox
       /\ store' = IF ok THEN store
                         ELSE Save(store, [store[id] EXCEPT !.Status = "failed"], clock)
  /\ UNCHANGED <<clock, balance, pc, transfer, sender, result, debits, obs>>

\* Notify with a goroutine that stays scheduled after it has sent its e-mail
Notify_Resends ==
  /\ \E id \in mailq, ok \in BOOLEAN :
       /\ mailq' = IF ok THEN mailq ELSE mailq \ {id}
       /\ outbox' = IF ok THEN outbox \cup {id} ELSE outbox
  /\ UNCHANGED <<clock, balance, store, pc, transfer, sender, result, debits, obs>>

\* the goroutine of InitiateTransfer: emailService.SendTransferEmail
Notify ==
  /\ \E id \in mailq, ok \in BOOLEAN :
       /\ mailq' = mailq \ {id}
       /\ outbox' = IF ok THEN outbox \cup {id} ELSE outbox
  /\ UNCHANGED <<clock, balance, store, pc, transfer, sender, result, debits, obs>>

\* an ID no row has
UnknownID == <<"transfer_", 0 - 1>>

\* row.ExpiresAt lies before now; CompleteTransfer never evaluates this, it is
\* only recorded in obs for the properties
Expired(row, now) == row.ExpiresAt < now

\* CompleteTransfer, lines 89-92: transferRepo.FindByID
C_FindByID(p) ==
  /\ pc[p] = "idle"
  /\ \E id \in DOMAIN store \cup {UnknownID}, ok \in BOOLEAN :
       IF ok /\ id \in DOMAIN store
       THEN /\ transfer' = [transfer EXCEPT ![p] = store[id]]
            /\ obs' = [obs EXCEPT ![p] = [NilObs EXCEPT !.op = "complete", !.id = id,
                                            !.seenStatus = store[id].Status,
                                            !.seenExpired = Expired(store[id], clock)]]
            /\ pc' = [pc EXCEPT ![p] = "c_getUser"]
            /\ UNCHANGED <<result, sender>>
       ELSE /\ obs' = [obs EXCEPT ![p] = [NilObs EXCEPT !.op = "complete", !.id = id,
                                            !.fault = (id \in DOMAIN store)]]
            /\ Finish(p, ErrNotFound)
            /\ UNCHANGED transfer
  /\ UNCHANGED <<clock, balance, store, mailq, outbox, debits>>

\* CompleteTransfer, lines 95-98: getUser(transfer.SenderID)
C_GetUser(p) ==
  /\ pc[p] = "c_getUser"
  /\ \E ok \in BOOLEAN :
       IF ok
       THEN /\ sender' = [sender EXCEPT ![p] = [ID |-> transfer[p].SenderID,
                                                 Email |-> EmailOf(transfer[p].SenderID),
                                                 Points |-> balance[transfer[p].SenderID]]]
            /\ obs' = [obs EXCEPT ![p].readOK = TRUE,
                                   ![p].read = balance[transfer[p].SenderID]]
            /\ pc' = [pc EXCEPT ![p] = "c_check"]
            /\ UNCHANGED <<result, transfer>>
       ELSE /\ obs' = [obs EXCEPT ![p].fault = TRUE]
            /\ Finish(p, ErrSender)
            /\ transfer' = [transfer EXCEPT ![p] = NilTransfer]
  /\ UNCHANGED <<clock, balance, store, mailq, outbox, debits>>

\* CompleteTransfer, lines 101-106: the sender can no longer pay; the error
\* of transferRepo.Update is dropped
C_MarkFailed(p) ==
  /\ pc[p] = "c_check"
  /\ NoLongerSufficient(sender[p].Points, transfer[p].Points)
  /\ \E ok \in BOOLEAN :
       /\ store' = IF ok THEN Save(store, [transfer[p] EXCEPT !.Status = "failed"], clock)
                         ELSE store
       /\ obs' = [obs EXCEPT ![p].stored = IF ok THEN "failed" ELSE @,
                              ![p].storeFailed = ~ok,
                              ![p].fault = ~ok]
  /\ Finish(p, ErrNoLongerSufficient)
  /\ transfer' = [transfer EXCEPT ![p] = NilTransfer]
  /\ UNCHANGED <<clock, balance, mailq, outbox, debits>>

\* C_Deduct with the record marked failed when the points update fails
C_Deduct_MarksFailed(p) ==
  /\ pc[p] = "c_check"
  /\ ~NoLongerSufficient(sender[p].Points, transfer[p].Points)
  /\ \E ok \in BOOLEAN :
       IF ok
       THEN /\ balance' = [balance EXCEPT ![transfer[p].SenderID] =
                              DeductedPoints(sender[p].Points, transfer[p].Points)]
            /\ debits' = [debits EXCEPT ![transfer[p].ID] = Bump(@)]
            /\ obs' = [obs EXCEPT ![p].wrote = TRUE,
                                   ![p].written = balance'[transfer[p].SenderID]]
            /\ pc' = [pc EXCEPT ![p] = "c_update"]
            /\ UNCHANGED <<result, sender, transfer, store>>
       ELSE /\ store' = Save(store, [transfer[p] EXCEPT !.Status = "failed"], clock)
            /\ obs' = [obs EXCEPT ![p].fault = TRUE, ![p].stored = "failed"]
            /\ Finish(p, ErrDeduct)
            /\ transfer' = [transfer EXCEPT ![p] = NilTransfer]
            /\ UNCHANGED <<balance, debits>>
  /\ UNCHANGED <<clock, mailq, outbox>>

\* CompleteTransfer, lines 109-111: updateUserPoints(sender.Points - transfer.Points)
C_Deduct(p) ==
  /\ pc[p] = "c_check"
  /\ ~NoLongerSufficient(sender[p].Points, transfer[p].Points)
  /\ \E ok \in BOOLEAN :
       IF ok
       THEN /\ balance' = [balance EXCEPT ![transfer[p].SenderID] =
                              DeductedPoints(sender[p].Points, transfer[p].Points)]
            /\ debits' = [debits EXCEPT ![transfer[p].ID] = Bump(@)]
            /\ obs' = [obs EXCEPT ![p].wrote = TRUE,
                                   ![p].written = balance'[transfer[p].SenderID]]
            /\ pc' = [pc EXCEPT ![p] = "c_update"]
            /\ UNCHANGED <<result, sender, transfer>>
       ELSE /\ obs' = [obs EXCEPT ![p].fault = TRUE]
            /\ Finish(p, ErrDeduct)
            /\ transfer' = [transfer EXCEPT ![p] = NilTransfer]
            /\ UNCHANGED <<balance, debits>>
  /\ UNCHANGED <<clock, store, mailq, outbox>>

\* CompleteTransfer, lines 114-121: transferRepo.Update with Status completed
C_Update(p) ==
  /\ pc[p] = "c_update"
  /\ \E ok \in BOOLEAN :
       IF ok
       THEN /\ store' = Save(store, [transfer[p] EXCEPT !.Status = "completed"], clock)
            /\ obs' = [obs EXCEPT ![p].stored = "completed"]
            /\ Finish(p, Nil)
       ELSE /\ obs' = [obs EXCEPT ![p].storeFailed = TRUE, ![p].fault = TRUE]
            /\ Finish(p, ErrComplete)
            /\ UNCHANGED store
  /\ transfer' = [transfer EXCEPT ![p] = NilTransfer]
  /\ UNCHANGED <<clock, balance, mailq, outbox, debits>>

\* the rows SELECTed for a sender, in every order ORDER BY created_at DESC allows
SortedSelections(rows) ==
  {sq \in [1..Cardinality(rows) -> rows] :
     \A i, j \in 1..Cardinality(rows) :
       i < j => (sq[i] # sq[j] /\ sq[i].CreatedAt >= sq[j].CreatedAt)}

\* FindBySenderID without the WHERE clause
FindBySenderID_All(st, senderID) ==
  SortedSelections({st[i] : i \in DOMAIN st})

\* TransferRepository.FindBySenderID:
\* SELECT * FROM transfers WHERE sender_id = ? ORDER BY created_at DESC
FindBySenderID(st, senderID) ==
  SortedSelections({st[i] : i \in {j \in DOMAIN st : st[j].SenderID = senderID}})

\* encoding/json of a models.Transfer under its json tags
TransferJSON(row) ==
  [id |-> row.ID, sender_id |-> row.SenderID, sender_email |-> row.SenderEmail,
   receiver_email |-> row.ReceiverEmail, receiver_name |-> row.ReceiverName,
   points |-> row.Points, status |-> row.Status, token |-> row.Token,
   expires_at |-> row.ExpiresAt, created_at |-> row.CreatedAt,
   updated_at |-> row.UpdatedAt]

\* TransferHandler.GetTransfers / GetUserTransfers: one SELECT, answered as
\* the "data" array of the response
L_List(p, u) ==
  /\ pc[p] = "idle"
  /\ \E ok \in BOOLEAN :
       IF ok
       THEN \E sq \in FindBySenderID(store, u) :
              /\ obs' = [obs EXCEPT ![p] =
                           [NilObs EXCEPT !.op = "list", !.user = u,
                                          !.list = [k \in 1..Len(sq) |-> TransferJSON(sq[k])]]]
              /\ Finish(p, Nil)
       ELSE /\ obs' = [obs EXCEPT ![p] = [NilObs EXCEPT !.op = "list", !.user = u, !.fault = TRUE]]
            /\ Finish(p, ErrFetch)
  /\ UNCHANGED <<clock, balance, store, transfer, mailq, outbox, debits>>

\* the handler has written its response; the caller may call again
Return(p) ==
  /\ pc[p] = "done"
  /\ pc' = [pc EXCEPT ![p] = "idle"]
  /\ transfer' = [transfer EXCEPT ![p] = NilTransfer]
  /\ result' = [result EXCEPT ![p] = Nil]
  /\ obs' = [obs EXCEPT ![p] = NilObs]
  /\ UNCHANGED <<clock, balance, store, sender, mailq, outbox, debits>>

Next ==
  \/ Tick
  \/ \E p \in Procs, u \in Senders : I_GetUser(p, u)
  \/ \E p \in Procs : I_Create(p)
  \/ \E p \in Procs : C_FindByID(p)
  \/ \E p \in Procs : C_GetUser(p)
  \/ \E p \in Procs : C_MarkFailed(p)
  \/ \E p \in Procs : C_Deduct(p)
  \/ \E p \in Procs : C_Update(p)
  \/ \E p \in Procs : Return(p)

\* the transfer protocol; the e-mail goroutines are left unscheduled
Spec == Init /\ [][Next]_vars

\* the protocol together with the e-mail goroutines
NextMail == Next \/ Notify

SpecMail == Init /\ [][NextMail]_vars

\* InitiateTransfer calls by one caller, their e-mail goroutines, and
\* CompleteTransfer calls by another caller
NextNotify ==
  \/ Tick
  \/ \E u \in Senders : I_GetUser("p2", u)
  \/ I_Create("p2")
  \/ Notify
  \/ C_FindByID("p1")
  \/ C_GetUser("p1")
  \/ C_MarkFailed("p1")
  \/ C_Deduct("p1")
  \/ C_Update("p1")
  \/ \E p \in Procs : Return(p)

SpecNotify == Init /\ [][NextNotify]_vars

\* InitiateTransfer calls of two senders and GetTransfers calls by one
\* caller, CompleteTransfer calls by another caller
NextList ==
  \/ Tick
  \/ \E u \in Users : I_GetUser("p2", u)
  \/ I_Create("p2")
  \/ \E u \in Users : L_List("p2", u)
  \/ C_FindByID("p1")
  \/ C_GetUser("p1")
  \/ C_MarkFailed("p1")
  \/ C_Deduct("p1")
  \/ C_Update("p1")
  \/ \E p \in Procs : Return(p)

SpecList == Init /\ [][NextList]_vars

\* the senders start with any of the wide balances
InitWide ==
  /\ clock = 0
  /\ balance \in [Users -> WideBalances]
  /\ \A u \in Users \ Senders : balance[u] \in InitBalances
  /\ store = [i \in {} |-> NilTransfer]
  /\ pc = [p \in Procs |-> "idle"]
  /\ transfer = [p \in Procs |-> NilTransfer]
  /\ sender = [p \in Procs |-> NilUser]
  /\ result = [p \in Procs |-> Nil]
  /\ mailq = {}
  /\ outbox = {}
  /\ debits = [i \in {} |-> 0]
  /\ obs = [p \in Procs |-> NilObs]

\* InitiateTransfer calls with any of the wide requests by every caller,
\* CompleteTransfer calls by one caller
NextWide ==
  \/ Tick
  \/ \E p \in Procs, u \in Senders, req \in WideRequests : I_Validate(p, u, req)
  \/ \E p \in Procs : I_Create(p)
  \/ C_FindByID("p1")
  \/ C_GetUser("p1")
  \/ C_MarkFailed("p1")
  \/ C_Deduct("p1")
  \/ C_Update("p1")
  \/ \E p \in Procs : Return(p)

SpecWide == InitWide /\ [][NextWide]_vars

\* ------------------------------------------------------------ properties
Terminal == {"completed", "failed", "expired", "cancelled"}

\* the error kind a caller reads off the returned message
ErrorKind(err) ==
  CASE err = Nil -> "Success"
    [] err = ErrNotFound -> "TransferNotFound"
    [] err = ErrSender -> "SenderNotFound"
    [] err = ErrNoLongerSufficient -> "InsufficientBalance"
    [] err = ErrInsufficient -> "InsufficientBalance"
    [] err = ErrDeduct -> "BalanceUpdateFailure"
    [] err = ErrComplete -> "PostCommitPersistenceFailure"
    [] err = ErrCreate -> "PersistenceFailure"
    [] err = ErrSelf -> "SelfTransferDenied"
    [] err = ErrAmount -> "InvalidAmount"
    [] OTHER -> "Unknown"

\* a CompleteTransfer call that has returned and whose caller has not moved on
CompleteDone(p) == pc[p] = "done" /\ obs[p].op = "complete"

\* a returned CompleteTransfer call that found its row
CompleteFound(p) == CompleteDone(p) /\ obs[p].seenStatus # ""

\* C1: for every transfer record, at most one successful balance write is
\* ever issued on its behalf, whatever Initiate and Complete calls run.
C1_AtMostOneDebit == \A id \in DOMAIN debits : debits[id] <= 1

\* C2: a Complete call that finds its record in a status other than pending
\* (and meets no collaborator failure) returns InvalidState and writes
\* neither the balance nor the store.
C2_TerminalRejected ==
  \A p \in Procs :
    (CompleteFound(p) /\ obs[p].seenStatus \in Terminal /\ ~obs[p].fault)
      => /\ ErrorKind(result[p]) = "InvalidState"
         /\ ~obs[p].wrote
         /\ obs[p].stored = ""

\* C3: two Complete calls on the same transfer id exclude each other: they
\* are never both past the debit (balance written, store not yet updated).
C3_MutualExclusion ==
  \A p, q \in Procs :
    (p # q /\ pc[p] = "c_update" /\ pc[q] = "c_update") => obs[p].id # obs[q].id

\* C4: when Complete calls for different transfers of one sender overlap,
\* every debit is covered by the balance the sender has at that moment and
\* lowers that balance by exactly the record's points (no lost update).
C4_NoLostUpdate ==
  [][\A p \in Procs :
       ( /\ pc[p] = "c_check"
         /\ pc'[p] = "c_update"
         /\ debits[obs[p].id] = 0
         /\ \A q \in Procs \ {p} : obs[q].id # obs[p].id )
       => /\ balance[transfer[p].SenderID] >= transfer[p].Points
          /\ balance'[transfer[p].SenderID] =
               balance[transfer[p].SenderID] - transfer[p].Points]_vars

\* C5: once a stored record is completed, failed, expired or cancelled, no
\* step changes its status again.
C5_OneWay ==
  [][\A id \in DOMAIN store :
       store[id].Status \in Terminal => store'[id].Status = store[id].Status]_vars

\* C6: a Complete call that finds its record pending with the expiry in the
\* past (and meets no collaborator failure) returns TransferExpired, stores
\* status expired and writes no balance.
C6_ExpiredRejected ==
  \A p \in Procs :
    (CompleteFound(p) /\ obs[p].seenStatus = "pending" /\ obs[p].seenExpired /\ ~obs[p].fault)
      => /\ ErrorKind(result[p]) = "TransferExpired"
         /\ obs[p].stored = "expired"
         /\ ~obs[p].wrote

\* C7: a Complete call that finds its record pending and unexpired, reads a
\* balance of at least the record's points and meets no collaborator failure
\* writes balance - points, stores status completed and returns success.
C7_Completes ==
  \A p \in Procs :
    ( /\ CompleteFound(p)
      /\ obs[p].seenStatus = "pending"
      /\ ~obs[p].seenExpired
      /\ obs[p].readOK
      /\ obs[p].read >= store[obs[p].id].Points
      /\ ~obs[p].fault )
      => /\ result[p] = Nil
         /\ obs[p].wrote
         /\ obs[p].written = obs[p].read - store[obs[p].id].Points
         /\ obs[p].stored = "completed"

C7_Witness ==
  \E p \in Procs :
    /\ CompleteFound(p)
    /\ obs[p].seenStatus = "pending"
    /\ ~obs[p].seenExpired
    /\ obs[p].readOK
    /\ obs[p].read >= store[obs[p].id].Points
    /\ ~obs[p].fault
    /\ result[p] = Nil
    /\ store[obs[p].id].Status = "completed"
    /\ balance[store[obs[p].id].SenderID] = obs[p].read - store[obs[p].id].Points

C9_UpstreamFailureLeavesState ==
  \A p \in Procs :
    (CompleteFound(p) /\ result[p] \in {ErrSender, ErrDeduct})
      => /\ ~obs[p].wrote
         /\ obs[p].stored = ""
         /\ ~obs[p].storeFailed

C9_Witness ==
  \E p \in Procs :
    /\ CompleteFound(p)
    /\ result[p] = ErrDeduct
    /\ obs[p].seenStatus = "pending"
    /\ store[obs[p].id].Status = "pending"
    /\ balance[store[obs[p].id].SenderID] = obs[p].read

\* C10: Complete returns its post-commit error exactly when its balance
\* write succeeded and the store update that follows failed; every other
\* outcome returns a different error.
C10_PostCommitDistinct ==
  \A p \in Procs :
    CompleteDone(p) => ((result[p] = ErrComplete) <=> (obs[p].wrote /\ obs[p].storeFailed))

C10_Witness ==
  \E p \in Procs :
    /\ CompleteDone(p)
    /\ obs[p].wrote
    /\ obs[p].storeFailed
    /\ result[p] = ErrComplete
    /\ store[obs[p].id].Status = "pending"

\* an InitiateTransfer call that has returned and whose caller has not moved on
InitiateDone(p) == pc[p] = "done" /\ obs[p].op = "initiate"

\* a step of an InitiateTransfer call
InitiateStep(p) == obs'[p].op = "initiate" /\ pc'[p] # pc[p] /\ pc'[p] # "idle"

\* C11: no step of an Initiate call, successful or failed, changes any
\* balance.
C11_InitiateNoBalanceWrite ==
  [][\A p \in Procs : InitiateStep(p) => balance' = balance]_vars

C11_Witness ==
  \E p \in Procs :
    /\ InitiateDone(p)
    /\ result[p] = Nil
    /\ obs[p].id \in DOMAIN store
    /\ store[obs[p].id].Points > 0
    /\ balance[obs[p].user] = obs[p].read
    /\ \A i \in DOMAIN debits : debits[i] = 0

\* the error kind of the first violated precondition, in the order amount,
\* self transfer, balance
FirstViolatedAmountFirst(have, email, req) ==
  IF req.Points <= 0 THEN "InvalidAmount"
  ELSE IF req.ReceiverEmail = email THEN "SelfTransferDenied"
  ELSE IF have < req.Points THEN "InsufficientBalance"
  ELSE "Success"

\* the error kind of the first violated precondition, in the order balance,
\* self transfer, amount
FirstViolatedBalanceFirst(have, email, req) ==
  IF have < req.Points THEN "InsufficientBalance"
  ELSE IF req.ReceiverEmail = email THEN "SelfTransferDenied"
  ELSE IF req.Points <= 0 THEN "InvalidAmount"
  ELSE "Success"

\* C12 as stated: an Initiate call whose sender resolves reports the first
\* violated precondition in the order points positive, receiver differs from
\* sender, balance >= points.
C12_AmountSelfBalance ==
  \A p \in Procs :
    (InitiateDone(p) /\ obs[p].readOK /\ result[p] # ErrCreate)
      => ErrorKind(result[p]) =
           FirstViolatedAmountFirst(obs[p].read, EmailOf(obs[p].user), obs[p].req)

\* C12 as amended: an Initiate call reports an unresolvable sender first and
\* otherwise the first violated precondition in the order balance >= points,
\* receiver differs from sender, points positive.
C12_BalanceSelfAmount ==
  \A p \in Procs :
    InitiateDone(p) =>
      /\ ~obs[p].readOK => result[p] = ErrSender
      /\ (obs[p].readOK /\ result[p] # ErrCreate)
           => ErrorKind(result[p]) =
                FirstViolatedBalanceFirst(obs[p].read, EmailOf(obs[p].user), obs[p].req)

C12_Witness ==
  \E p \in Procs :
    /\ InitiateDone(p)
    /\ obs[p].readOK
    /\ obs[p].req.ReceiverEmail = EmailOf(obs[p].user)
    /\ obs[p].read < obs[p].req.Points
    /\ result[p] = ErrInsufficient

\* C13: every step of an Initiate call other than its successful return
\* leaves the store unchanged and spawns no notification, so a call that
\* returns an error has stored nothing and notified nobody.
C13_FailedInitiateNoEffect ==
  [][\A p \in Procs :
       (InitiateStep(p) /\ ~(pc'[p] = "done" /\ result'[p] = Nil))
         => (store' = store /\ mailq' = mailq /\ outbox' = outbox)]_vars

C13_Witness ==
  \E p \in Procs :
    /\ InitiateDone(p)
    /\ result[p] = ErrCreate
    /\ obs[p].fault
    /\ DOMAIN store = {}
    /\ mailq = {}

\* C14: every stored record expires exactly 24 hours after its creation
\* timestamp.
C14_ExpiryExact ==
  \A id \in DOMAIN store : store[id].ExpiresAt = store[id].CreatedAt + ExpiryWindow

\* C15: no two stored records share an id or a claim token, and an Initiate
\* call whose preconditions hold and whose store is available succeeds.
C15_UniqueAndNoCollision ==
  /\ \A i, j \in DOMAIN store :
       i # j => (store[i].ID # store[j].ID /\ store[i].Token # store[j].Token)
  /\ \A p \in Procs :
       (InitiateDone(p) /\ obs[p].readOK /\ ~obs[p].fault) => result[p] # ErrCreate

\* an e-mail goroutine has run to its end
NotifyStep == mailq' # mailq /\ mailq' \subseteq mailq

\* C16: the outcome of a notification, whenever it runs, changes no stored
\* record, no balance and no call's result or returned record, and no step
\* of an Initiate call sends or waits for the e-mail itself.
C16_NotifierIndependent ==
  [][/\ NotifyStep => ( /\ store' = store
                        /\ balance' = balance
                        /\ result' = result
                        /\ transfer' = transfer
                        /\ pc' = pc )
     /\ \A p \in Procs : InitiateStep(p) => outbox' = outbox]_vars

\* an Initiate call has returned success and its notification has failed
C16_Witness ==
  \E p \in Procs :
    /\ InitiateDone(p)
    /\ result[p] = Nil
    /\ obs[p].id \notin mailq
    /\ obs[p].id \notin outbox
    /\ transfer[p] = store[obs[p].id]
    /\ store[obs[p].id].Status = "pending"
    /\ balance[obs[p].user] = obs[p].read

\* a GetTransfers call that has returned and whose caller has not moved on
ListDone(p) == pc[p] = "done" /\ obs[p].op = "list"

\* the step of a GetTransfers call
ListStep(p) == pc[p] = "idle" /\ pc'[p] = "done" /\ obs'[p].op = "list"

\* C17: a list call changes no stored record and no balance, and a
\* successful one answers with exactly the stored records whose sender id
\* is the one asked for, newest creation time first.
C17_ListExact ==
  [][\A p \in Procs :
       ListStep(p) =>
         /\ store' = store
         /\ balance' = balance
         /\ result'[p] = Nil =>
              LET l == obs'[p].list
                  own == {i \in DOMAIN store : store[i].SenderID = obs'[p].user}
              IN  /\ Len(l) = Cardinality(own)
                  /\ {l[k].id : k \in 1..Len(l)} = own
                  /\ \A k \in 1..Len(l) :
                       /\ l[k].sender_id = obs'[p].user
                       /\ l[k].points = store[l[k].id].Points
                       /\ l[k].status = store[l[k].id].Status
                       /\ l[k].receiver_email = store[l[k].id].ReceiverEmail
                       /\ l[k].created_at = store[l[k].id].CreatedAt
                  /\ \A j, k \in 1..Len(l) : j < k => l[j].created_at >= l[k].created_at]_vars

\* a list answered with one record while the store holds another sender's
\* record addressed to the asking user's e-mail
C17_Witness ==
  \E p \in Procs, i, j \in DOMAIN store :
    /\ ListDone(p)
    /\ result[p] = Nil
    /\ Len(obs[p].list) = 1
    /\ obs[p].list[1].id = i
    /\ store[i].SenderID = obs[p].user
    /\ store[j].SenderID # obs[p].user
    /\ store[j].ReceiverEmail = EmailOf(obs[p].user)

\* C18: no record of a list response carries the claim token.
C18_ListOmitsToken ==
  \A p \in Procs :
    ListDone(p) => \A k \in 1..Len(obs[p].list) : "token" \notin DOMAIN obs[p].list[k]

Statuses == {"pending", "completed", "failed", "expired", "cancelled"}

\* C19: after every step each stored record's status is one of pending,
\* completed, failed, expired, cancelled, and a record that has just been
\* stored for the first time is pending.
C19_StatusDomain ==
  [][/\ \A id \in DOMAIN store' : store'[id].Status \in Statuses
     /\ \A id \in DOMAIN store' \ DOMAIN store : store'[id].Status = "pending"]_vars

C19_Witness ==
  \E i, j \in DOMAIN store :
    /\ store[i].Status = "completed"
    /\ store[j].Status = "failed"

\* C20: every stored record has points > 0 and a sender e-mail different
\* from its receiver e-mail, whatever requests and balances Initiate meets.
C20_PositiveAndNotSelf ==
  \A id \in DOMAIN store :
    /\ store[id].Points > 0
    /\ store[id].SenderEmail # store[id].ReceiverEmail

\* an overdrawn sender asks for a negative amount the balance check lets
\* through; the call is refused and nothing is stored
C20_Witness ==
  \E p \in Procs :
    /\ InitiateDone(p)
    /\ obs[p].readOK
    /\ obs[p].read < 0
    /\ obs[p].req.Points < 0
    /\ obs[p].read >= obs[p].req.Points
    /\ obs[p].req.ReceiverEmail # EmailOf(obs[p].user)
    /\ result[p] = ErrAmount
    /\ DOMAIN store = {}

\* C21: every Initiate or Complete call in which a store write failed
\* returns a persistence error; in particular a Complete call whose update to
\* status failed was not applied is not answered with InsufficientBalance
\* while the record stays pending.
C21_StoreFailureReported ==
  \A p \in Procs :
    (pc[p] = "done" /\ obs[p].op \in {"initiate", "complete"} /\ obs[p].storeFailed)
      => ErrorKind(result[p]) \in {"PersistenceFailure", "PostCommitPersistenceFailure"}

\* the fields of a record that are fixed at its creation
Immutable(row) ==
  [ID |-> row.ID, SenderID |-> row.SenderID, SenderEmail |-> row.SenderEmail,
   ReceiverEmail |-> row.ReceiverEmail, ReceiverName |-> row.ReceiverName,
   Points |-> row.Points, Token |-> row.Token, ExpiresAt |-> row.ExpiresAt,
   CreatedAt |-> row.CreatedAt]

\* C22: no step removes a stored record or changes its id, sender id, sender
\* email, receiver email, receiver name, points, claim token, expiry or
\* creation timestamp; each record is stored under its own id, and the copy
\* a Complete call holds agrees with the stored record on these fields.
C22_ImmutableFields ==
  [][/\ \A id \in DOMAIN store :
          /\ id \in DOMAIN store'
          /\ Immutable(store'[id]) = Immutable(store[id])
     /\ \A id \in DOMAIN store' : store'[id].ID = id
     /\ \A p \in Procs :
          pc'[p] \in {"c_getUser", "c_check", "c_update"}
            => /\ transfer'[p].ID \in DOMAIN store'
               /\ Immutable(transfer'[p]) = Immutable(store'[transfer'[p].ID])]_vars

\* two Complete calls on one record have both written their copy back, at a
\* later time than the record was created
C22_Witness ==
  \E p, q \in Procs :
    /\ p # q
    /\ CompleteFound(p) /\ CompleteFound(q)
    /\ obs[p].id = obs[q].id
    /\ obs[p].stored = "completed" /\ obs[q].stored = "completed"
    /\ store[obs[p].id].Points = 60
    /\ store[obs[p].id].UpdatedAt > store[obs[p].id].CreatedAt

\* C23: a notification is spawned only by the step that creates its record
\* in the store with status pending, one per created record; it is handed to
\* the transport only while its record is in the store, and the attempt ends
\* the goroutine, so no record is notified a second time.
C23_NotifyAfterCreate ==
  [][/\ \A id \in mailq' \ mailq :
          /\ id \notin DOMAIN store
          /\ id \in DOMAIN store'
          /\ store'[id].Status = "pending"
     /\ Cardinality(mailq' \ mailq) <= 1
     /\ \A id \in outbox' \ outbox :
          /\ id \in mailq
          /\ id \notin mailq'
          /\ id \in DOMAIN store
     /\ DOMAIN store \subseteq DOMAIN store'
     /\ \A id \in mailq' \cup outbox' : id \in DOMAIN store'
     /\ mailq' \cap outbox' = {}]_vars

\* an Initiate call has returned success, its e-mail has been sent, and the
\* record is still pending
C23_Witness ==
  \E p \in Procs :
    /\ InitiateDone(p)
    /\ result[p] = Nil
    /\ obs[p].id \in outbox
    /\ obs[p].id \notin mailq
    /\ store[obs[p].id].Status = "pending"

\* the step of a Complete call that writes the balance
DebitStep(p) == pc[p] = "c_check" /\ pc'[p] = "c_update"

\* C24: a Complete call writes a balance only after reading one of at least
\* the record's points, the value it writes is the balance read minus the
\* points and is not negative, nothing else changes a balance, and no
\* balance is negative after any step.
C24_WritesNonNegative ==
  [][/\ \A p \in Procs :
          DebitStep(p) =>
            /\ obs[p].readOK
            /\ obs[p].read >= transfer[p].Points
            /\ obs'[p].wrote
            /\ obs'[p].written = obs[p].read - transfer[p].Points
            /\ obs'[p].written >= 0
            /\ balance'[transfer[p].SenderID] = obs'[p].written
     /\ \A u \in Users :
          /\ balance'[u] # balance[u]
               => \E p \in Procs : DebitStep(p) /\ transfer[p].SenderID = u
          /\ balance'[u] >= 0]_vars

\* two Complete calls have both read 100 and both written 40
C24_Witness ==
  \E p, q \in Procs :
    /\ p # q
    /\ obs[p].op = "complete" /\ obs[q].op = "complete"
    /\ obs[p].wrote /\ obs[q].wrote
    /\ obs[p].read = 100 /\ obs[q].read = 100
    /\ obs[p].written = 40 /\ obs[q].written = 40
    /\ \E u \in Users : balance[u] = 40

====
